---- MODULE Spec2Model ----
(***************************************************************************)
(* sonicd client library: the wire message codec (model.rs), the framing   *)
(* and the retrying read path (io.rs).                                     *)
(*                                                                         *)
(* Rust values are represented as follows.                                 *)
(*   String            a TLA+ string of the universe Strings; Utf8 gives   *)
(*                     its bytes                                           *)
(*   Option<T>         <<>> for None, <<x>> for Some(x)                    *)
(*   serde_json::Value a record tagged by t: Null, String, Array, Object   *)
(*   Vec<u8> / [u8]    a sequence of integers 0..255                       *)
(*   Result<T>         a record tagged by kind: "Ok" or the Error variant  *)
(*   usize lengths that may exceed 31 bits: [hi, lo], value hi*2^16 + lo   *)
(***************************************************************************)
EXTENDS Integers, Sequences, FiniteSets, TLC

(***************************************************************************)
(* Bounds of the model.                                                    *)
(***************************************************************************)
\* frames the peer writes to the socket before it closes
MaxMsgs == 2
\* read_message calls the handler makes on the fd
MaxCalls == 3
\* recursion depth of read_next reached by arbitrary partial reads; a
\* byte-at-a-time delivery is followed to any depth
MaxDepth == 2
\* variables given to inject_vars
MaxVars == 2
\* file descriptors
MaxFd == 2

(***************************************************************************)
(* Strings and their UTF-8 bytes.                                          *)
(***************************************************************************)
Utf8 ==
    ("e" :> <<101>>) @@
    ("v" :> <<118>>) @@
    ("p" :> <<112>>) @@
    ("Q" :> <<81>>) @@
    ("A" :> <<65>>) @@
    ("D" :> <<68>>) @@
    ("success" :> <<115, 117, 99, 99, 101, 115, 115>>) @@
    ("error" :> <<101, 114, 114, 111, 114>>) @@
    ("q" :> <<113>>) @@
    ("a\"b" :> <<97, 34, 98>>) @@
    ("auth" :> <<97, 117, 116, 104>>) @@
    ("config" :> <<99, 111, 110, 102, 105, 103>>) @@
    ("trace_id" :> <<116, 114, 97, 99, 101, 95, 105, 100>>) @@
    ("t" :> <<116>>) @@
    ("i" :> <<105>>) @@
    ("db" :> <<100, 98>>) @@
    ("host" :> <<104, 111, 115, 116>>) @@
    ("x" :> <<120>>) @@
    ("bad" :> <<98, 97, 100>>)

Strings == DOMAIN Utf8

None == <<>>
Some(x) == <<x>>

\* serde_json::Value
Null == [t |-> "Null"]
String(s) == [t |-> "String", s |-> s]
Array(a) == [t |-> "Array", a |-> a]
Object(o) == [t |-> "Object", o |-> o]

\* the empty BTreeMap
EmptyMap == [k \in {} |-> Null]

\* Result
Ok(x) == [kind |-> "Ok", val |-> x]
IsOk(r) == r.kind = "Ok"

Zeros(n) == [i \in 1..n |-> 0]

Min(a, b) == IF a < b THEN a ELSE b

(***************************************************************************)
(* serde_json::to_string: the canonical encoding of a Value and of a       *)
(* SonicMessage.  Quotation marks and backslashes of a string are escaped; *)
(* the keys of an object come in the order of the BTreeMap (bytewise).     *)
(***************************************************************************)
RECURSIVE Escape(_)
Escape(b) ==
    IF b = <<>> THEN <<>>
    ELSE IF Head(b) = 34 \/ Head(b) = 92
         THEN <<92, Head(b)>> \o Escape(Tail(b))
         ELSE <<Head(b)>> \o Escape(Tail(b))

EncString(s) == <<34>> \o Escape(Utf8[s]) \o <<34>>

RECURSIVE LexLess(_, _)
LexLess(a, b) ==
    IF a = <<>> THEN b # <<>>
    ELSE IF b = <<>> THEN FALSE
    ELSE IF Head(a) # Head(b) THEN Head(a) < Head(b)
    ELSE LexLess(Tail(a), Tail(b))

RECURSIVE SortedKeys(_)
SortedKeys(ks) ==
    IF ks = {} THEN <<>>
    ELSE LET k == CHOOSE x \in ks : \A y \in ks \ {x} : LexLess(Utf8[x], Utf8[y])
         IN <<k>> \o SortedKeys(ks \ {k})

RECURSIVE EncValue(_), EncElems(_, _), EncMembers(_, _, _)
EncValue(val) ==
    CASE val.t = "Null" -> <<110, 117, 108, 108>>
      [] val.t = "String" -> EncString(val.s)
      [] val.t = "Array" -> <<91>> \o EncElems(val.a, 1) \o <<93>>
      [] val.t = "Object" ->
            <<123>> \o EncMembers(val.o, SortedKeys(DOMAIN val.o), 1) \o <<125>>

EncElems(a, i) ==
    IF i > Len(a) THEN <<>>
    ELSE (IF i > 1 THEN <<44>> ELSE <<>>) \o EncValue(a[i]) \o EncElems(a, i + 1)

EncMembers(o, ks, i) ==
    IF i > Len(ks) THEN <<>>
    ELSE (IF i > 1 THEN <<44>> ELSE <<>>)
         \o EncString(ks[i]) \o <<58>> \o EncValue(o[ks[i]])
         \o EncMembers(o, ks, i + 1)

\* SonicMessage::into_bytes: the derived Serialize writes the three fields in
\* declaration order, None as null
into_bytes(msg) ==
    <<123>> \o EncString("e") \o <<58>> \o EncString(msg.e)
    \o <<44>> \o EncString("v") \o <<58>>
    \o (IF msg.v = None THEN <<110, 117, 108, 108>> ELSE EncString(msg.v[1]))
    \o <<44>> \o EncString("p") \o <<58>>
    \o (IF msg.p = None THEN <<110, 117, 108, 108>> ELSE EncValue(msg.p[1]))
    \o <<125>>

(***************************************************************************)
(* serde_json::from_slice: a recursive-descent parser of the JSON text the *)
(* encoder produces (no whitespace, no numbers), rejecting everything      *)
(* else, truncated and zero-filled input included.  A parse returns        *)
(* [ok, val, i]: success, the value, the index after it.                   *)
(***************************************************************************)
ParseFail == [ok |-> FALSE, val |-> Null, i |-> 0]

\* the bytes of a string literal whose opening quote is before index i
RECURSIVE ScanString(_, _, _)
ScanString(s, i, acc) ==
    IF i > Len(s) THEN [ok |-> FALSE, bytes |-> <<>>, i |-> i]
    ELSE IF s[i] = 34 THEN [ok |-> TRUE, bytes |-> acc, i |-> i + 1]
    ELSE IF s[i] = 92
         THEN IF i + 1 <= Len(s) /\ (s[i + 1] = 34 \/ s[i + 1] = 92)
              THEN ScanString(s, i + 2, Append(acc, s[i + 1]))
              ELSE [ok |-> FALSE, bytes |-> <<>>, i |-> i]
    ELSE IF s[i] < 32 THEN [ok |-> FALSE, bytes |-> <<>>, i |-> i]
    ELSE ScanString(s, i + 1, Append(acc, s[i]))

StringOf(bytes) == CHOOSE x \in Strings : Utf8[x] = bytes

RECURSIVE ParseValue(_, _), ParseElems(_, _, _), ParseMembers(_, _, _)
ParseValue(s, i) ==
    IF i > Len(s) THEN ParseFail
    ELSE CASE s[i] = 110 ->
                IF i + 3 <= Len(s) /\ SubSeq(s, i, i + 3) = <<110, 117, 108, 108>>
                THEN [ok |-> TRUE, val |-> Null, i |-> i + 4]
                ELSE ParseFail
           [] s[i] = 34 ->
                LET r == ScanString(s, i + 1, <<>>)
                IN IF r.ok THEN [ok |-> TRUE, val |-> String(StringOf(r.bytes)), i |-> r.i]
                   ELSE ParseFail
           [] s[i] = 91 ->
                IF i + 1 <= Len(s) /\ s[i + 1] = 93
                THEN [ok |-> TRUE, val |-> Array(<<>>), i |-> i + 2]
                ELSE ParseElems(s, i + 1, <<>>)
           [] s[i] = 123 ->
                IF i + 1 <= Len(s) /\ s[i + 1] = 125
                THEN [ok |-> TRUE, val |-> Object(EmptyMap), i |-> i + 2]
                ELSE ParseMembers(s, i + 1, EmptyMap)
           [] OTHER -> ParseFail

\* the elements of an array from index i on, acc the elements parsed so far
ParseElems(s, i, acc) ==
    LET r == ParseValue(s, i)
    IN IF ~r.ok \/ r.i > Len(s) THEN ParseFail
       ELSE IF s[r.i] = 93
            THEN [ok |-> TRUE, val |-> Array(Append(acc, r.val)), i |-> r.i + 1]
       ELSE IF s[r.i] = 44 THEN ParseElems(s, r.i + 1, Append(acc, r.val))
       ELSE ParseFail

\* the members of an object from index i on; a repeated key keeps the last
\* value, as BTreeMap::insert does
ParseMembers(s, i, acc) ==
    IF i > Len(s) \/ s[i] # 34 THEN ParseFail
    ELSE LET k == ScanString(s, i + 1, <<>>)
         IN IF ~k.ok \/ k.i > Len(s) \/ s[k.i] # 58 THEN ParseFail
            ELSE LET r == ParseValue(s, k.i + 1)
                     key == StringOf(k.bytes)
                     m == [x \in DOMAIN acc \cup {key} |->
                              IF x = key THEN r.val ELSE acc[x]]
                 IN IF ~r.ok \/ r.i > Len(s) THEN ParseFail
                    ELSE IF s[r.i] = 125
                         THEN [ok |-> TRUE, val |-> Object(m), i |-> r.i + 1]
                    ELSE IF s[r.i] = 44 THEN ParseMembers(s, r.i + 1, m)
                    ELSE ParseFail

\* the whole slice is one JSON value
ParseJson(s) ==
    LET r == ParseValue(s, 1)
    IN IF r.ok /\ r.i = Len(s) + 1 THEN r ELSE ParseFail

\* the derived Deserialize of SonicMessage, from a JSON object: e is a
\* required string, v an optional string, p an optional value; a JSON null
\* for an Option field is None; other keys are ignored
IsMessageObject(val) ==
    /\ val.t = "Object"
    /\ "e" \in DOMAIN val.o
    /\ val.o["e"].t = "String"
    /\ ("v" \in DOMAIN val.o => val.o["v"].t \in {"Null", "String"})

MessageOfObject(o) ==
    [e |-> o["e"].s,
     v |-> IF "v" \in DOMAIN o /\ o["v"].t = "String" THEN Some(o["v"].s) ELSE None,
     p |-> IF "p" \in DOMAIN o /\ o["p"].t # "Null" THEN Some(o["p"]) ELSE None]

\* SonicMessage::from_slice; the SerDe error carries the offending slice
from_slice(slice) ==
    LET r == ParseJson(slice)
    IN IF r.ok /\ IsMessageObject(r.val)
       THEN Ok(MessageOfObject(r.val.o))
       ELSE [kind |-> "SerDe", slice |-> slice]

(***************************************************************************)
(* Query::from_msg and Query::into_msg.                                    *)
(***************************************************************************)
\* payload.get(k).and_then(|t| t.as_string())
GetString(payload, k) ==
    IF k \in DOMAIN payload /\ payload[k].t = "String" THEN Some(payload[k].s) ELSE None

\* from_msg without the test of the event tag
from_msg_any_tag(msg) ==
    IF msg.v # None /\ msg.p # None /\ msg.p[1].t = "Object"
    THEN LET payload == msg.p[1].o
         IN IF "config" \in DOMAIN payload
            THEN Ok([id |-> None,
                     trace_id |-> GetString(payload, "trace_id"),
                     query |-> msg.v[1],
                     auth |-> GetString(payload, "auth"),
                     config |-> payload["config"]])
            ELSE [kind |-> "ProtocolError",
                  text |-> "missing 'config' in query message payload"]
    ELSE [kind |-> "SerDe", msg |-> msg]

from_msg(msg) ==
    IF msg.e = "Q" /\ msg.v # None /\ msg.p # None /\ msg.p[1].t = "Object"
    THEN LET payload == msg.p[1].o
         IN IF "config" \in DOMAIN payload
            THEN Ok([id |-> None,
                     trace_id |-> GetString(payload, "trace_id"),
                     query |-> msg.v[1],
                     auth |-> GetString(payload, "auth"),
                     config |-> payload["config"]])
            ELSE [kind |-> "ProtocolError",
                  text |-> "missing 'config' in query message payload"]
    ELSE [kind |-> "SerDe", msg |-> msg]

\* into_msg with the auth token and the trace id under each other's key
into_msg_swapped(q) ==
    [e |-> "Q",
     v |-> Some(q.query),
     p |-> Some(Object(
             ("config" :> q.config)
             @@ ("trace_id" :> (IF q.auth = None THEN Null ELSE String(q.auth[1])))
             @@ ("auth" :> (IF q.trace_id = None THEN Null ELSE String(q.trace_id[1])))))]

into_msg(q) ==
    [e |-> "Q",
     v |-> Some(q.query),
     p |-> Some(Object(
             ("config" :> q.config)
             @@ ("auth" :> (IF q.auth = None THEN Null ELSE String(q.auth[1])))
             @@ ("trace_id" :> (IF q.trace_id = None THEN Null ELSE String(q.trace_id[1])))))]

(***************************************************************************)
(* frame: the 4-byte big-endian i32 length header and the encoding.        *)
(***************************************************************************)
\* a usize as [hi, lo], and the usize of a small integer
USize(n) == [hi |-> n \div 65536, lo |-> n % 65536]

\* `len as i32`: the low 32 bits, read as two's complement
AsI32(n) ==
    LET h == n.hi % 65536
    IN IF h >= 32768 THEN (h - 65536) * 65536 + n.lo ELSE h * 65536 + n.lo

\* the header in little-endian byte order
WriteI32LE(x) ==
    <<x % 256, (x \div 256) % 256, (x \div 65536) % 256, (x \div 16777216) % 256>>

\* write_i32::<BigEndian>
WriteI32BE(x) ==
    <<(x \div 16777216) % 256, (x \div 65536) % 256, (x \div 256) % 256, x % 256>>

\* read_i32::<BigEndian>
ReadI32BE(b) ==
    (IF b[1] >= 128 THEN b[1] - 256 ELSE b[1]) * 16777216
    + b[2] * 65536 + b[3] * 256 + b[4]

\* the header frame writes for an encoding of qlen bytes (qlen a usize)
FrameHeader(qlen) == WriteI32BE(AsI32(qlen))

frame(msg) ==
    LET qbytes == into_bytes(msg)
    IN FrameHeader(USize(Len(qbytes))) \o qbytes

\* the stream the peer writes: the frames of msgs, one after the other
RECURSIVE FrameAll(_)
FrameAll(msgs) ==
    IF msgs = <<>> THEN <<>> ELSE frame(Head(msgs)) \o FrameAll(Tail(msgs))

(***************************************************************************)
(* SonicMessage::done and the Display of Error.  An Error that carries a   *)
(* message is [kind, text].                                                *)
(***************************************************************************)
ErrorKinds ==
    {"Io", "Connect", "SerDe", "GetAddr", "ParseAddr", "ProtocolError",
     "HttpError", "StreamError", "OtherError"}

\* impl fmt::Display for Error: every arm writes what the variant carries
Display(err) ==
    CASE err.kind = "Io" -> err.text
      [] err.kind = "Connect" -> err.text
      [] err.kind = "SerDe" -> err.text
      [] err.kind = "GetAddr" -> err.text
      [] err.kind = "ParseAddr" -> err.text
      [] err.kind = "ProtocolError" -> err.text
      [] err.kind = "HttpError" -> err.text
      [] err.kind = "StreamError" -> err.text
      [] err.kind = "OtherError" -> err.text

\* done with the rendering of the error as the payload itself
done_bare_string(r) ==
    [e |-> "D",
     v |-> Some(IF IsOk(r) THEN "success" ELSE "error"),
     p |-> Some(IF IsOk(r) THEN Null ELSE String(Display(r)))]

done(r) ==
    [e |-> "D",
     v |-> Some(IF IsOk(r) THEN "success" ELSE "error"),
     p |-> Some(IF IsOk(r) THEN Null ELSE Array(<<String(Display(r))>>))]

(***************************************************************************)
(* build (cli/src/util.rs): the Query of a data-source alias.  sources is  *)
(* the BTreeMap of the client configuration, a function from aliases to    *)
(* Values.                                                                 *)
(***************************************************************************)
\* build that passes the alias on when its configuration is not an object
build_lenient(alias, sources, auth, raw_query) ==
    Ok([id |-> None,
        trace_id |-> None,
        auth |-> auth,
        query |-> raw_query,
        config |-> IF alias \in DOMAIN sources /\ sources[alias].t = "Object"
                   THEN sources[alias] ELSE String(alias)])

build(alias, sources, auth, raw_query) ==
    IF alias \in DOMAIN sources /\ sources[alias].t # "Object"
    THEN [kind |-> "OtherError", source |-> alias]
    ELSE Ok([id |-> None,
             trace_id |-> None,
             auth |-> auth,
             query |-> raw_query,
             config |-> IF alias \in DOMAIN sources THEN sources[alias]
                        ELSE String(alias)])

(***************************************************************************)
(* inject_vars (cli/src/util.rs).  The template, the keys and the values   *)
(* are sequences of characters; vars is a sequence of <<key, value>>.      *)
(***************************************************************************)
\* "${".to_string() + &var.0 + "}"
KeyToken(key) == <<"$", "{">> \o key \o <<"}">>

\* str::contains
Contains(q, k) ==
    \E i \in 1..(Len(q) - Len(k) + 1) : SubSeq(q, i, i + Len(k) - 1) = k

\* str::replace: every non-overlapping match of k, from the left
RECURSIVE Replace(_, _, _)
Replace(q, k, v) ==
    IF Len(q) < Len(k) THEN q
    ELSE IF SubSeq(q, 1, Len(k)) = k
         THEN v \o Replace(SubSeq(q, Len(k) + 1, Len(q)), k, v)
         ELSE <<Head(q)>> \o Replace(Tail(q), k, v)

\* Regex::new(r"(\$\{.*\})").is_match: "${", then characters other than a
\* newline, then "}"
IsMatch(q) ==
    \E i \in 1..Len(q), j \in 1..Len(q) :
        /\ j >= i + 2
        /\ q[i] = "$"
        /\ q[i + 1] = "{"
        /\ q[j] = "}"
        /\ \A m \in (i + 2)..(j - 1) : q[m] # "\n"

\* the loop over vars, and the check of what is left
RECURSIVE InjectLoop(_, _)
InjectLoop(q, vs) ==
    IF vs = <<>>
    THEN IF IsMatch(q)
         THEN [kind |-> "OtherError", text |-> "Some variables remain uninjected"]
         ELSE Ok(q)
    ELSE LET k == KeyToken(Head(vs)[1])
         IN IF ~Contains(q, k)
            THEN [kind |-> "OtherError", notfound |-> k]
            ELSE InjectLoop(Replace(q, k, Head(vs)[2]), Tail(vs))

inject_vars(template, vs) == InjectLoop(template, vs)

(***************************************************************************)
(* Inputs.                                                                 *)
(***************************************************************************)
Values ==
    {Null, String("x"), Array(<<>>), Array(<<String("bad")>>), Array(<<Null>>),
     Object(EmptyMap),
     Object("config" :> String("db")),
     Object("auth" :> String("t")),
     Object(("config" :> Null) @@ ("auth" :> Null) @@ ("trace_id" :> Null)),
     Object(("config" :> Object("host" :> String("x")))
            @@ ("auth" :> String("t")) @@ ("trace_id" :> String("i")))}

Msgs ==
    [e : {"Q", "A", "D"},
     v : {None, Some("q"), Some("a\"b"), Some("success")},
     p : {None} \cup {Some(val) : val \in Values}]

Queries ==
    [id : {None, Some("i")},
     query : {"q", "a\"b"},
     trace_id : {None, Some("i")},
     auth : {None, Some("t")},
     config : {Null, String("db"), Array(<<String("x")>>),
               Object("host" :> String("x"))}]

\* SonicMessage::ack()
ack == [e |-> "A", v |-> None, p |-> None]

\* SonicMessage::done(Ok(..)) and SonicMessage::done(Err(Error::SerDe("bad")))
done_ok == [e |-> "D", v |-> Some("success"), p |-> Some(Null)]
done_err == [e |-> "D", v |-> Some("error"), p |-> Some(Array(<<String("bad")>>))]

\* the messages the peer frames and writes to the socket
WireMsgs == {ack, done_ok}

\* byte streams that are not a sequence of frames of WireMsgs: a header of
\* -1, a frame of length 0, a frame whose payload is the JSON text {}
RawStreams == {<<255, 255, 255, 255>>, <<0, 0, 0, 0>>, <<0, 0, 0, 2, 123, 125>>}

\* encoding lengths around the limits of 8, 16, 31 and 32 bits
QLens ==
    {USize(n) : n \in 0..40} \cup {USize(n) : n \in {255, 256, 65535, 65536}}
    \cup {[hi |-> h, lo |-> l] : h \in {32767, 32768, 65535, 65536, 98304},
                                  l \in {0, 1, 27, 65534, 65535}}

\* the results given to done: Ok of some value, Err of some Error
DoneResults ==
    {Ok(val) : val \in {Null, String("x")}}
    \cup [kind : ErrorKinds, text : {"bad", "x", "error"}]

\* the sources of a client configuration, and the arguments of build
Sources ==
    {EmptyMap,
     "db" :> Object("host" :> String("x")),
     "db" :> Object(EmptyMap),
     "db" :> String("x"),
     "db" :> Null,
     ("db" :> Array(<<String("x")>>)) @@ ("x" :> Object("host" :> String("x"))),
     ("db" :> Object("host" :> String("x"))) @@ ("x" :> String("db"))}

BuildArgs ==
    [alias : {"db", "x", "host"},
     sources : Sources,
     auth : {None, Some("t")},
     raw_query : {"q", "a\"b"}]

\* templates: "", "x", "${A}", "${A}x${A}", "${A}${B}", "${B}", "${A}}", "${A"
Templates ==
    {<<>>, <<"x">>, KeyToken(<<"A">>),
     KeyToken(<<"A">>) \o <<"x">> \o KeyToken(<<"A">>),
     KeyToken(<<"A">>) \o KeyToken(<<"B">>),
     KeyToken(<<"B">>),
     KeyToken(<<"A">>) \o <<"}">>,
     <<"$", "{", "A">>}

\* variables: the keys A and B, the values "x" and "${B}"
Vars == {<<"A">>, <<"B">>} \X {<<"x">>, KeyToken(<<"B">>)}

SeqsUpTo(S, n) == UNION {[1..k -> S] : k \in 0..n}

(***************************************************************************)
(* State.                                                                  *)
(*   sent, wire   the messages the peer framed and the bytes it wrote      *)
(*   pos          the fd's stream position: bytes the reads have consumed  *)
(*   start        the stream position at which the current (or the last)  *)
(*                read_message call began                                  *)
(*   eof          the peer has closed and a read has returned 0 for it     *)
(*   pc           where read_message is: "idle" (not called), "header" and *)
(*                "payload" (inside read_next, about to issue the read     *)
(*                syscall), "header_ret" and "payload_ret" (read_next has  *)
(*                returned)                                                *)
(*   stack        the activations of read_next, outermost first: len, the  *)
(*                activation's buffer buf, and b, the bytes its read       *)
(*                returned; the last activation is the one at the syscall  *)
(*   rn           the read_next call that returned last: len, the caller's *)
(*                buffer buf, the value ret, and got, the bytes delivered  *)
(*   outcome      the result of the last read syscall of this call         *)
(*   results      what the read_message calls returned, in order           *)
(*   call, out    a call of a pure function and its result                 *)
(***************************************************************************)
VARIABLES sent, wire, pos, start, eof, pc, stack, rn, outcome, results, call, out,
          table, interest, reported, dispatched, cpc, running, op

readerVars == <<sent, wire, pos, start, eof, pc, stack, rn, outcome, results>>
codecVars == <<call, out>>
ctlVars == <<table, interest, reported, dispatched, cpc, running, op>>
vars == <<sent, wire, pos, start, eof, pc, stack, rn, outcome, results, call, out,
          table, interest, reported, dispatched, cpc, running, op>>

NoReturn == [len |-> 0, buf |-> <<>>, got |-> 0, ret |-> [kind |-> "none"]]
NoOutcome == [errno |-> "none", n |-> 0]
NoCall == [fn |-> "none"]

Retryable == {"EAGAIN", "EINTR"}
Fatal == {"EBADF", "ECONNRESET"}

IoError(errno) == [kind |-> "Io", errno |-> errno]

ReaderInit ==
    /\ pos = 0
    /\ start = 0
    /\ eof = FALSE
    /\ pc = "idle"
    /\ stack = <<>>
    /\ rn = NoReturn
    /\ outcome = NoOutcome
    /\ results = <<>>

CodecIdle ==
    /\ call = NoCall
    /\ out = None

NoOp == [fn |-> "none", fd |-> 0, ok |-> TRUE]

\* a Controller with no fd registered, outside run and run_once
ControllerInit ==
    /\ table = <<>>
    /\ interest = {}
    /\ reported = <<>>
    /\ dispatched = <<>>
    /\ cpc = "idle"
    /\ running = FALSE
    /\ op = NoOp

Init ==
    /\ \/ sent \in SeqsUpTo(WireMsgs, MaxMsgs) /\ wire = FrameAll(sent)
       \/ sent = <<>> /\ wire \in RawStreams
    /\ ReaderInit
    /\ CodecIdle
    /\ ControllerInit

(***************************************************************************)
(* unistd::read on the socket: the results the kernel can give to a read   *)
(* into a buffer of n bytes.  Data is at most n bytes and at most what is  *)
(* left of the stream; 0 is returned for an empty buffer and at end of     *)
(* file, and the peer may close at any point of the stream.                *)
(***************************************************************************)
\* the reads of this read_next call so far returned one byte each
ByteAtATime == \A i \in 1..(Len(stack) - 1) : stack[i].b = 1

\* a read of k bytes that leaves read_next to recurse
MayRecurse(k) == Len(stack) < MaxDepth \/ (k = 1 /\ ByteAtATime)

Kernel(n, len) ==
    {[errno |-> "OK", n |-> k] :
        k \in {j \in 1..Min(n, Len(wire) - pos) : ~eof /\ (j = len \/ MayRecurse(j))}}
    \cup {[errno |-> "OK", n |-> 0]}
    \cup {[errno |-> e, n |-> 0] : e \in Retryable \cup Fatal}

(***************************************************************************)
(* eagain!: what the macro does with a result of the syscall.              *)
(***************************************************************************)
\* eagain! that retries on EAGAIN only
eagain_eintr_fatal(res) ==
    IF res.errno = "OK" THEN "break"
    ELSE IF res.errno = "EAGAIN" THEN "loop"
    ELSE "return"

\* eagain! that retries on every error
eagain_retry_all(res) ==
    IF res.errno = "OK" THEN "break" ELSE "loop"

eagain(res) ==
    IF res.errno = "OK" THEN "break"
    ELSE IF res.errno \in Retryable THEN "loop"
    ELSE "return"

(***************************************************************************)
(* read_next.                                                              *)
(***************************************************************************)
Frame(len) == [len |-> len, buf |-> Zeros(len), b |-> 0]

\* buf.split_at_mut(b).1.copy_from_slice(rembuf), in every activation from
\* the innermost out; the result is the buffer of the outermost one
RECURSIVE UnwindFrom(_, _)
UnwindFrom(stk, i) ==
    IF i = Len(stk) THEN stk[i].buf
    ELSE SubSeq(stk[i].buf, 1, stk[i].b) \o UnwindFrom(stk, i + 1)

Unwind(stk) == UnwindFrom(stk, 1)

RECURSIVE Delivered(_)
Delivered(stk) == IF stk = <<>> THEN 0 ELSE Head(stk).b + Delivered(Tail(stk))

\* the innermost activation returns r, and every activation above it
\* returns r in turn
Return(stk, r) ==
    /\ rn' = [len |-> stk[1].len, buf |-> Unwind(stk), got |-> Delivered(stk), ret |-> r]
    /\ stack' = <<>>
    /\ pc' = IF pc = "header" THEN "header_ret" ELSE "payload_ret"

\* one read syscall of the innermost activation and what read_next does
\* with its result, up to the next syscall or the return
Read ==
    /\ pc \in {"header", "payload"}
    /\ LET d == Len(stack)
           f == stack[d]
       IN \E res \in Kernel(Len(f.buf), f.len) :
            /\ outcome' = res
            /\ eof' = (eof \/ (res.errno = "OK" /\ res.n = 0 /\ Len(f.buf) > 0))
            /\ CASE eagain(res) = "loop" ->
                      UNCHANGED <<pos, pc, stack, rn>>
                 [] eagain(res) = "return" ->
                      /\ Return(stack, IoError(res.errno))
                      /\ pos' = pos
                 [] eagain(res) = "break" ->
                      LET b == res.n
                          data == SubSeq(wire, pos + 1, pos + b)
                          read == [f EXCEPT !.b = b,
                                            !.buf = data \o SubSeq(f.buf, b + 1, Len(f.buf))]
                          stk == [stack EXCEPT ![d] = read]
                      IN /\ pos' = pos + b
                         /\ IF b = f.len THEN Return(stk, Ok(b))
                            ELSE IF b > 0
                                 THEN /\ stack' = Append(stk, Frame(f.len - b))
                                      /\ UNCHANGED <<pc, rn>>
                            ELSE Return(stk, Ok(b))
    /\ UNCHANGED <<sent, wire, start, results, call, out, ctlVars>>

(***************************************************************************)
(* read_message.                                                           *)
(***************************************************************************)
\* the handler gives up the connection after an error
MayCall ==
    /\ Len(results) < MaxCalls
    /\ results # <<>> => IsOk(results[Len(results)])

\* let len_buf = &mut [0; 4]; read_next(4, *fd, len_buf)
CallReadMessage ==
    /\ pc = "idle"
    /\ MayCall
    /\ pc' = "header"
    /\ stack' = <<Frame(4)>>
    /\ rn' = NoReturn
    /\ outcome' = NoOutcome
    /\ start' = pos
    /\ UNCHANGED <<sent, wire, pos, eof, results, call, out, ctlVars>>

ReturnMessage(r) ==
    /\ results' = Append(results, r)
    /\ pc' = "idle"
    /\ UNCHANGED stack

\* try!(read_next(4, ..)); the header as i32, cast to usize; vec!(0; len);
\* read_next(len, *fd, buf).  A negative header is a length above
\* isize::MAX, for which vec! panics
HeaderRead ==
    /\ pc = "header_ret"
    /\ IF ~IsOk(rn.ret) THEN ReturnMessage(rn.ret)
       ELSE LET len == ReadI32BE(rn.buf)
            IN IF len < 0
               THEN ReturnMessage([kind |-> "Panic", text |-> "capacity overflow"])
               ELSE /\ pc' = "payload"
                    /\ stack' = <<Frame(len)>>
                    /\ UNCHANGED results
    /\ UNCHANGED <<sent, wire, pos, start, eof, rn, outcome, call, out, ctlVars>>

\* try!(read_next(len, ..)); SonicMessage::from_slice(buf.as_slice())
PayloadRead ==
    /\ pc = "payload_ret"
    /\ IF ~IsOk(rn.ret) THEN ReturnMessage(rn.ret)
       ELSE ReturnMessage(from_slice(rn.buf))
    /\ UNCHANGED <<sent, wire, pos, start, eof, rn, outcome, call, out, ctlVars>>

Next ==
    \/ CallReadMessage
    \/ Read
    \/ HeaderRead
    \/ PayloadRead

Spec == Init /\ [][Next]_vars

\* a read syscall whose result is not EAGAIN or EINTR
ReadProgress == Read /\ outcome'.errno \notin Retryable

\* the source returns EAGAIN/EINTR only finitely many times in a row
SpecLive == Init /\ [][Next]_vars /\ WF_vars(ReadProgress)

(***************************************************************************)
(* The pure functions, applied to every input of the bounded sets.         *)
(***************************************************************************)
CodecInit ==
    /\ sent = <<>>
    /\ wire = <<>>
    /\ ReaderInit
    /\ CodecIdle
    /\ ControllerInit

\* SonicMessage::from_slice(m.into_bytes())
RoundTrip ==
    /\ \E m \in Msgs :
         /\ call' = [fn |-> "from_slice", arg |-> m]
         /\ out' = from_slice(into_bytes(m))
    /\ UNCHANGED <<readerVars, ctlVars>>

\* Query::from_msg(q.into_msg())
QueryRoundTrip ==
    /\ \E q \in Queries :
         /\ call' = [fn |-> "into_msg", arg |-> q]
         /\ out' = from_msg(into_msg(q))
    /\ UNCHANGED <<readerVars, ctlVars>>

\* Query::from_msg(m)
FromMsg ==
    /\ \E m \in Msgs :
         /\ call' = [fn |-> "from_msg", arg |-> m]
         /\ out' = from_msg(m)
    /\ UNCHANGED <<readerVars, ctlVars>>

\* frame(m)
FrameMsg ==
    /\ \E m \in Msgs :
         /\ call' = [fn |-> "frame", arg |-> m]
         /\ out' = frame(m)
    /\ UNCHANGED <<readerVars, ctlVars>>

\* frame of a message whose encoding is qlen bytes long: the header
FrameLen ==
    /\ \E qlen \in QLens :
         /\ call' = [fn |-> "frame_header", arg |-> qlen]
         /\ out' = FrameHeader(qlen)
    /\ UNCHANGED <<readerVars, ctlVars>>

\* SonicMessage::done(r)
Done ==
    /\ \E r \in DoneResults :
         /\ call' = [fn |-> "done", arg |-> r]
         /\ out' = done(r)
    /\ UNCHANGED <<readerVars, ctlVars>>

\* build(alias, sources, auth, raw_query)
Build ==
    /\ \E a \in BuildArgs :
         /\ call' = [fn |-> "build", arg |-> a]
         /\ out' = build(a.alias, a.sources, a.auth, a.raw_query)
    /\ UNCHANGED <<readerVars, ctlVars>>

\* inject_vars(template, vars)
InjectVars ==
    /\ \E t \in Templates, vs \in SeqsUpTo(Vars, MaxVars) :
         /\ call' = [fn |-> "inject_vars", arg |-> [template |-> t, vars |-> vs]]
         /\ out' = inject_vars(t, vs)
    /\ UNCHANGED <<readerVars, ctlVars>>

CodecNext ==
    \/ RoundTrip
    \/ QueryRoundTrip
    \/ FromMsg
    \/ FrameMsg
    \/ FrameLen
    \/ Done
    \/ Build
    \/ InjectVars

SpecCodec == CodecInit /\ [][CodecNext]_vars

(***************************************************************************)
(* The readiness Controller (spec 4.3, 4.4, 5): register, deregister,      *)
(* run_once and run over the fd table and the kernel's interest set.  The  *)
(* source has the capability trait only (is_terminated, ready).            *)
(***************************************************************************)
Fds == 1..MaxFd

\* the synchronous and the streaming Handler
HandlerIds == {"sync", "stream"}

Handler(id) == [h |-> id, terminated |-> FALSE]

Controller == [table |-> table, interest |-> interest, ok |-> TRUE]

Without(tbl, fds) == [f \in DOMAIN tbl \ fds |-> tbl[f]]

\* register(fd, handler): fails if fd is already registered
register(c, fd, handler) ==
    IF fd \in DOMAIN c.table THEN [c EXCEPT !.ok = FALSE]
    ELSE [table |-> (fd :> handler) @@ c.table,
          interest |-> c.interest \cup {fd},
          ok |-> TRUE]

\* deregister that leaves fd in the kernel's interest set
deregister_table_only(c, fd) ==
    [table |-> Without(c.table, {fd}), interest |-> c.interest, ok |-> TRUE]

\* deregister(fd): removes fd from the interest set and the table; an
\* unknown fd is a no-op
deregister(c, fd) ==
    [table |-> Without(c.table, {fd}), interest |-> c.interest \ {fd}, ok |-> TRUE]

\* is_terminated() of the Handlers of the table
Terminated(tbl) == {f \in DOMAIN tbl : tbl[f].terminated}

\* a sweep that drops no Handler
sweep_none(c) == c

\* the sweep of run: every terminated Handler is deregistered and dropped
sweep(c) ==
    [table |-> Without(c.table, Terminated(c.table)),
     interest |-> c.interest \ Terminated(c.table),
     ok |-> TRUE]

\* a lookup that takes the first slot of the table
lookup_first(tbl, fd) == tbl[CHOOSE f \in DOMAIN tbl : \A g \in DOMAIN tbl : f <= g]

\* the Handler that owns fd
lookup(tbl, fd) == tbl[fd]

\* what one poll can report: fds of the interest set, each at most once, in
\* the kernel's order
Events(fds) ==
    {evs \in SeqsUpTo(Fds, MaxFd) :
        /\ \A i \in 1..Len(evs) : evs[i] \in fds
        /\ \A i, j \in 1..Len(evs) : i # j => evs[i] # evs[j]}

Register ==
    /\ cpc = "idle" /\ ~running
    /\ \E fd \in Fds, id \in HandlerIds :
         LET c == register(Controller, fd, Handler(id))
         IN /\ table' = c.table
            /\ interest' = c.interest
            /\ op' = [fn |-> "register", fd |-> fd, ok |-> c.ok]
    /\ UNCHANGED <<reported, dispatched, cpc, running, readerVars, codecVars>>

Deregister ==
    /\ cpc = "idle" /\ ~running
    /\ \E fd \in Fds :
         LET c == deregister(Controller, fd)
         IN /\ table' = c.table
            /\ interest' = c.interest
            /\ op' = [fn |-> "deregister", fd |-> fd, ok |-> c.ok]
    /\ UNCHANGED <<reported, dispatched, cpc, running, readerVars, codecVars>>

\* run_once: the poll returns, with events or on the timeout
Poll ==
    /\ cpc = "idle"
    /\ \E evs \in Events(interest) :
         /\ reported' = evs
         /\ dispatched' = <<>>
    /\ cpc' = "dispatch"
    /\ op' = [fn |-> "run_once", fd |-> 0, ok |-> TRUE]
    /\ UNCHANGED <<table, interest, running, readerVars, codecVars>>

\* run_once: handler.ready(event) for the next reported event; the Handler
\* may mark itself terminated
Dispatch ==
    /\ cpc = "dispatch"
    /\ Len(dispatched) < Len(reported)
    /\ LET fd == reported[Len(dispatched) + 1]
           handler == lookup(table, fd)
       IN /\ dispatched' = Append(dispatched, [fd |-> fd, h |-> handler.h])
          /\ \E t \in BOOLEAN :
               /\ handler.terminated => t
               /\ table' = [table EXCEPT ![fd].terminated = t]
    /\ UNCHANGED <<interest, reported, cpc, running, op, readerVars, codecVars>>

\* run_once returns, to the caller or to the loop of run
EndRunOnce ==
    /\ cpc = "dispatch"
    /\ Len(dispatched) = Len(reported)
    /\ cpc' = IF running THEN "sweep" ELSE "idle"
    /\ UNCHANGED <<table, interest, reported, dispatched, running, op, readerVars, codecVars>>

\* run()
Run ==
    /\ cpc = "idle" /\ ~running
    /\ running' = TRUE
    /\ cpc' = "sweep"
    /\ op' = [fn |-> "run", fd |-> 0, ok |-> TRUE]
    /\ UNCHANGED <<table, interest, reported, dispatched, readerVars, codecVars>>

\* run: between two run_once calls the terminated Handlers are deregistered
\* and dropped; run returns when the table is empty
Sweep ==
    /\ cpc = "sweep"
    /\ LET c == sweep(Controller)
       IN /\ table' = c.table
          /\ interest' = c.interest
          /\ running' = (DOMAIN c.table # {})
    /\ cpc' = "idle"
    /\ UNCHANGED <<reported, dispatched, op, readerVars, codecVars>>

ControllerNext ==
    \/ Register
    \/ Deregister
    \/ Poll
    \/ Dispatch
    \/ EndRunOnce
    \/ Run
    \/ Sweep

SpecController == CodecInit /\ [][ControllerNext]_vars

\* ready() returns, run_once returns and the sweep is done
SpecControllerFair ==
    /\ CodecInit
    /\ [][ControllerNext]_vars
    /\ WF_vars(Dispatch)
    /\ WF_vars(EndRunOnce)
    /\ WF_vars(Sweep)

(***************************************************************************)
(* Properties of the read path (specification Spec).                       *)
(***************************************************************************)
ReadNextReturned == pc \in {"header_ret", "payload_ret"}

LastResult == results[Len(results)]

\* the stream position after the first i frames of sent
RECURSIVE FrameEnd(_)
FrameEnd(i) == IF i = 0 THEN 0 ELSE FrameEnd(i - 1) + Len(frame(sent[i]))

\* the stream is the frames of sent and nothing else
Framed == wire = FrameAll(sent)

\* C1: when all len > 0 requested bytes were delivered, in any number of
\* chunks, read_next returns Ok(len), the requested length, and not the size
\* of a chunk.
C1_ReadNextReturnsLen ==
    (ReadNextReturned /\ rn.len > 0 /\ rn.got = rn.len) => rn.ret = Ok(rn.len)

\* what read_next does return in that case: the size of the last chunk
ReadNextReturnsLastChunk ==
    (ReadNextReturned /\ rn.len > 0 /\ rn.got = rn.len)
        => rn.ret = Ok(outcome.n) /\ outcome.errno = "OK" /\ outcome.n > 0

\* C2: when the peer has closed before any byte of the header was delivered
\* (the call consumed nothing and met no I/O error), read_message does not
\* return an error.
C2_PeerClosedIsNotAnError ==
    (pc = "idle" /\ results # <<>> /\ pos = start /\ LastResult.kind # "Io")
        => LastResult.kind \notin {"SerDe", "ProtocolError", "Panic"}

\* what read_message does return in that case: the SerDe error of an empty
\* slice, which is also what a frame of length 0 and a header cut short by
\* the close give
PeerClosedIsSerDeError ==
    (pc = "idle" /\ results # <<>> /\ pos = start /\ LastResult.kind # "Io")
        => LastResult = [kind |-> "SerDe", slice |-> <<>>]

\* C3: once all the bytes of frame(m) have been delivered, in any chunking,
\* read_message has returned exactly m.
C3_FramingRoundTrip ==
    (Framed /\ sent # <<>> /\ results # <<>> /\ pos >= FrameEnd(1))
        => results[1] = Ok(sent[1])

\* C9: on the stream frame(m1) ++ ... ++ frame(mk), delivered in any
\* chunking, the i-th read_message call returns mi, and after i successful
\* calls exactly the bytes of the first i frames have been consumed.
C9_FramesInOrder ==
    Framed =>
        /\ \A i \in 1..Len(results) :
             (i <= Len(sent) /\ pos >= FrameEnd(i)) => results[i] = Ok(sent[i])
        /\ (pc = "idle" /\ Len(results) <= Len(sent)
                /\ \A i \in 1..Len(results) : IsOk(results[i]))
             => pos = FrameEnd(Len(results))

\* what holds of C3 and C9: the payload handed to from_slice is the encoding
\* of mi byte for byte, so that the i-th call returns what from_slice makes
\* of it, and each successful call consumes exactly one frame
FramesDecodedInOrder ==
    Framed =>
        /\ \A i \in 1..Len(results) :
             (i <= Len(sent) /\ pos >= FrameEnd(i))
                => results[i] = from_slice(into_bytes(sent[i]))
        /\ (pc = "payload_ret" /\ Len(results) < Len(sent)
                /\ pos >= FrameEnd(Len(results) + 1))
             => rn.buf = into_bytes(sent[Len(results) + 1])
        /\ (pc = "idle" /\ Len(results) <= Len(sent)
                /\ \A i \in 1..Len(results) : IsOk(results[i]))
             => pos = FrameEnd(Len(results))

\* C6: a read that fails with EAGAIN or EINTR is retried and changes nothing:
\* read_next stays at the same read of the same activation, with the same
\* buffers and the same stream position, and nothing is returned.
C6_RetryIsTransparent ==
    [][(Read /\ outcome'.errno \in Retryable)
          => UNCHANGED <<pos, start, eof, pc, stack, rn, results>>]_vars

\* a retry after bytes have been accumulated by earlier partial reads
C6_Witness ==
    /\ outcome.errno \in Retryable
    /\ pc = "payload"
    /\ Len(stack) > 1
    /\ pos > start + 4

\* C7: after a read has failed with an error other than EAGAIN and EINTR,
\* the operation is not at a read any more (no further syscall is issued):
\* read_next has returned that I/O error, or read_message has, and no
\* message.
C7_FatalErrorAborts ==
    outcome.errno \in Fatal =>
        \/ ReadNextReturned /\ rn.ret = IoError(outcome.errno)
        \/ pc = "idle" /\ results # <<>> /\ LastResult = IoError(outcome.errno)

\* the error met at a later partial-read step of the payload of a second
\* message, and returned
C7_Witness ==
    /\ outcome.errno \in Fatal
    /\ pc = "idle"
    /\ Len(results) = 2
    /\ pos > start + 5
    /\ pos < FrameEnd(2)

(***************************************************************************)
(* Properties of the pure functions (specification SpecCodec).             *)
(***************************************************************************)
\* C4: for every message m, from_slice(m.into_bytes()) succeeds and returns
\* a message equal to m field by field.
C4_MessageRoundTrip ==
    call.fn = "from_slice" => out = Ok(call.arg)

\* what holds of C4: the round trip returns m, except that a payload of
\* Some(Null) comes back as None
MessageRoundTripButNull ==
    call.fn = "from_slice" =>
        out = Ok(IF call.arg.p = Some(Null) THEN [call.arg EXCEPT !.p = None]
                 ELSE call.arg)

\* C5: for every Query q with trace_id and auth present, from_msg(q.into_msg())
\* succeeds and returns the query, trace_id, auth and config of q, and no id.
C5_QueryRoundTrip ==
    (call.fn = "into_msg" /\ call.arg.trace_id # None /\ call.arg.auth # None)
        => /\ IsOk(out)
           /\ out.val.query = call.arg.query
           /\ out.val.trace_id = call.arg.trace_id
           /\ out.val.auth = call.arg.auth
           /\ out.val.config = call.arg.config
           /\ out.val.id = None

\* a query with an id, trace_id, auth and an object for config, round-tripped
C5_Witness ==
    /\ call.fn = "into_msg"
    /\ call.arg.trace_id # None
    /\ call.arg.auth # None
    /\ call.arg.id # None
    /\ call.arg.config.t = "Object"
    /\ IsOk(out)

\* the value of a header, as the usize it is compared with
HeaderEquals(header, n) ==
    /\ Len(header) = 4
    /\ n.hi < 32768
    /\ ReadI32BE(header) = n.hi * 65536 + n.lo

\* C8 as stated: the header of frame reads n for every length n of the
\* encoding, also when n does not fit in an i32.
C8_HeaderIsLengthForEveryN ==
    call.fn = "frame_header" => HeaderEquals(out, call.arg)

\* C8: frame(msg) is the 4-byte header and the n bytes of the encoding, and
\* the header reads n as long as n <= 2^31 - 1; for 2^31 <= n < 2^32 it reads
\* n - 2^32.
C8_HeaderIsLength ==
    /\ call.fn = "frame" =>
          /\ Len(out) = 4 + Len(into_bytes(call.arg))
          /\ HeaderEquals(SubSeq(out, 1, 4), USize(Len(into_bytes(call.arg))))
          /\ SubSeq(out, 5, Len(out)) = into_bytes(call.arg)
    /\ (call.fn = "frame_header" /\ call.arg.hi < 32768)
          => HeaderEquals(out, call.arg)
    /\ (call.fn = "frame_header" /\ call.arg.hi >= 32768 /\ call.arg.hi < 65536)
          => /\ Len(out) = 4
             /\ ReadI32BE(out) = (call.arg.hi - 65536) * 65536 + call.arg.lo

\* the header of the largest length an i32 holds
C8_Witness ==
    /\ call.fn = "frame_header"
    /\ call.arg = [hi |-> 32767, lo |-> 65535]
    /\ out = <<127, 255, 255, 255>>

\* the messages from_msg accepts
IsQueryMessage(m) ==
    /\ m.e = "Q"
    /\ m.v # None
    /\ m.p # None
    /\ m.p[1].t = "Object"
    /\ "config" \in DOMAIN m.p[1].o

\* C10 as stated: from_msg returns Ok exactly for the messages with e = "Q",
\* v present and p an object with the key "config", and fails for every
\* other message with the SerDe error that names the message.
C10_OneKindOfError ==
    call.fn = "from_msg" =>
        /\ IsOk(out) <=> IsQueryMessage(call.arg)
        /\ ~IsOk(out) => (out.kind = "SerDe" /\ out.msg = call.arg)

\* C10: from_msg returns Ok exactly for those messages; a "Q" message with v
\* present and an object without "config" for p fails with the ProtocolError
\* "missing 'config' in query message payload", which does not name the
\* message; every other message fails with the SerDe error that names it.
C10_FromMsgErrors ==
    call.fn = "from_msg" =>
        LET m == call.arg
            noConfig == /\ m.e = "Q" /\ m.v # None /\ m.p # None
                        /\ m.p[1].t = "Object"
                        /\ "config" \notin DOMAIN m.p[1].o
        IN /\ IsOk(out) <=> IsQueryMessage(m)
           /\ noConfig => out = [kind |-> "ProtocolError",
                                 text |-> "missing 'config' in query message payload"]
           /\ (~IsQueryMessage(m) /\ ~noConfig) => out = [kind |-> "SerDe", msg |-> m]

\* a "Q" message with query text and an object payload that has no "config"
C10_Witness ==
    /\ call.fn = "from_msg"
    /\ call.arg.e = "Q"
    /\ call.arg.v # None
    /\ call.arg.p = Some(Object("auth" :> String("t")))
    /\ out.kind = "ProtocolError"

\* C11: done(r) has the event tag "D"; for Ok its value is "success" and its
\* payload encodes as JSON null; for Err(err) its value is "error" and its
\* payload is an array of exactly one element, the string rendering of err.
C11_Done ==
    call.fn = "done" =>
        /\ out.e = "D"
        /\ IsOk(call.arg) =>
              /\ out.v = Some("success")
              /\ out.p # None
              /\ EncValue(out.p[1]) = <<110, 117, 108, 108>>
        /\ ~IsOk(call.arg) =>
              /\ out.v = Some("error")
              /\ out.p # None
              /\ out.p[1].t = "Array"
              /\ Len(out.p[1].a) = 1
              /\ out.p[1].a[1] = String(call.arg.text)

\* done(Err(Error::SerDe("bad"))), the message {"e":"D","v":"error","p":["bad"]}
C11_Witness ==
    /\ call.fn = "done"
    /\ call.arg = [kind |-> "SerDe", text |-> "bad"]
    /\ out = done_err
    /\ into_bytes(out) =
         <<123, 34, 101, 34, 58, 34, 68, 34, 44, 34, 118, 34, 58, 34, 101, 114,
           114, 111, 114, 34, 44, 34, 112, 34, 58, 91, 34, 98, 97, 100, 34, 93,
           125>>

\* C12: build resolves the alias in three exclusive ways: an alias that
\* sources maps to an object gives that object as config; an alias that is
\* not a key of sources gives the alias itself as a string; an alias that
\* sources maps to anything else gives an error and no Query.  In the two
\* successful cases query is raw_query and auth the given auth.
C12_Build ==
    call.fn = "build" =>
        LET a == call.arg
            known == a.alias \in DOMAIN a.sources
        IN /\ (known /\ a.sources[a.alias].t = "Object")
                 => IsOk(out) /\ out.val.config = a.sources[a.alias]
           /\ ~known => IsOk(out) /\ out.val.config = String(a.alias)
           /\ (known /\ a.sources[a.alias].t # "Object") => out.kind = "OtherError"
           /\ IsOk(out) => out.val.query = a.raw_query /\ out.val.auth = a.auth

\* the three cases: build("db", {"db": {"host": "x"}}, ..), an unknown alias,
\* and an alias configured with a string
C12_Witness ==
    /\ call.fn = "build"
    /\ call.arg.alias = "db"
    /\ call.arg.sources = ("db" :> Array(<<String("x")>>))
                          @@ ("x" :> Object("host" :> String("x")))
    /\ call.arg.auth = Some("t")
    /\ out.kind = "OtherError"

\* C13: read_next returns Ok(0) only when no byte of the requested length
\* was delivered before the end of the stream.
C13_ZeroOnlyWithoutData ==
    (ReadNextReturned /\ rn.got > 0) => rn.ret # Ok(0)

\* what read_next does return at the end of the stream: Ok(0), whatever was
\* delivered before, with the bytes delivered in the buffer before the zeros
ZeroAtEndOfStream ==
    (ReadNextReturned /\ IsOk(rn.ret) /\ rn.got < rn.len)
        => /\ rn.ret = Ok(0)
           /\ eof
           /\ rn.buf = SubSeq(wire, pos - rn.got + 1, pos) \o Zeros(rn.len - rn.got)

\* a "${", and a "}" after it
HasToken(q) ==
    \E i \in 1..Len(q), j \in 1..Len(q) :
        j >= i + 2 /\ q[i] = "$" /\ q[i + 1] = "{" /\ q[j] = "}"

\* the template with every ${k} replaced by the value paired with k
RECURSIVE Substituted(_, _)
Substituted(t, vs) ==
    IF t = <<>> THEN <<>>
    ELSE LET at == {i \in 1..Len(vs) :
                       /\ Len(KeyToken(vs[i][1])) <= Len(t)
                       /\ SubSeq(t, 1, Len(KeyToken(vs[i][1]))) = KeyToken(vs[i][1])}
         IN IF at = {} THEN <<Head(t)>> \o Substituted(Tail(t), vs)
            ELSE LET i == CHOOSE x \in at : \A y \in at : x <= y
                 IN vs[i][2]
                    \o Substituted(SubSeq(t, Len(KeyToken(vs[i][1])) + 1, Len(t)), vs)

\* C17: inject_vars fails whenever some key k of vars does not occur as ${k}
\* in the template, and whenever a ${...} remains after the substitutions;
\* when it succeeds, every ${k} of the template has been replaced by the
\* value paired with k and the result contains no ${...}.
C17_InjectVars ==
    call.fn = "inject_vars" =>
        LET t == call.arg.template
            vs == call.arg.vars
        IN /\ (\E i \in 1..Len(vs) : ~Contains(t, KeyToken(vs[i][1]))) => ~IsOk(out)
           /\ IsOk(out) => ~HasToken(out.val) /\ out.val = Substituted(t, vs)

\* what holds of C17: a success has no ${...} left, and with values that
\* contain no "$" a key that is not in the template makes inject_vars fail
\* and a success is the template with every ${k} replaced by k's value
InjectPlainValues ==
    call.fn = "inject_vars" =>
        LET t == call.arg.template
            vs == call.arg.vars
            plain == \A i \in 1..Len(vs) : \A m \in 1..Len(vs[i][2]) : vs[i][2][m] # "$"
        IN /\ IsOk(out) => ~HasToken(out.val)
           /\ (plain /\ \E i \in 1..Len(vs) : ~Contains(t, KeyToken(vs[i][1])))
                => ~IsOk(out)
           /\ (plain /\ IsOk(out)) => out.val = Substituted(t, vs)

\* read_message has returned after reading a whole header that is negative
\* as a signed 32-bit value
NegativeHeaderRead ==
    /\ pc = "idle"
    /\ results # <<>>
    /\ pos - start = 4
    /\ rn.len = 4 /\ rn.got = 4 /\ IsOk(rn.ret)
    /\ ReadI32BE(rn.buf) < 0

\* C18: when the 4-byte length header decodes to a negative signed 32-bit
\* value, read_message fails with a protocol error; the negative value is
\* never reinterpreted as a large unsigned length.
C18_NegativeLengthIsProtocolError ==
    NegativeHeaderRead => LastResult.kind = "ProtocolError"

\* what holds of C18: no payload read follows a negative header, because the
\* allocation of the reinterpreted length panics
NegativeLengthPanics ==
    /\ NegativeHeaderRead => LastResult.kind = "Panic"
    /\ pc = "payload" => ReadI32BE(rn.buf) >= 0

\* read_message has returned, and the end of the stream came after the first
\* byte of a frame and before its last
TruncatedFrame ==
    /\ pc = "idle"
    /\ results # <<>>
    /\ eof
    /\ pos > start
    /\ \/ pos - start < 4
       \/ pos - start < 4 + ReadI32BE(SubSeq(wire, start + 1, start + 4))

\* C19: if the end of the stream is reached after a frame has started and
\* before it is complete, read_message never returns Ok, it decodes no header
\* or payload buffer whose unread tail is still the zero filler, and it issues
\* no payload read sized from a partially read header.
C19_TruncatedFrame ==
    /\ TruncatedFrame => ~IsOk(LastResult)
    /\ ~(pc = "payload" /\ rn.len = 4 /\ rn.got \in 1..3)
    /\ ~(/\ pc = "idle" /\ results # <<>> /\ IsOk(rn.ret)
         /\ rn.got \in 1..(rn.len - 1)
         /\ LastResult = from_slice(rn.buf))

\* what holds of C19: a truncated frame never gives Ok
TruncatedFrameIsNeverOk ==
    TruncatedFrame => ~IsOk(LastResult)

\* a payload read sized from a header of which 1 to 3 bytes were read
PayloadReadAfterPartialHeader ==
    pc = "payload" /\ rn.len = 4 /\ rn.got \in 1..3 /\ stack = <<Frame(ReadI32BE(rn.buf))>>

\* the activations of read_next: each but the innermost has had one
\* successful read of at least one byte, and the next one is called with the
\* remaining length
RemainingDecreases ==
    /\ \A i \in 1..(Len(stack) - 1) :
          /\ stack[i].b >= 1
          /\ stack[i + 1].len = stack[i].len - stack[i].b
    /\ stack # <<>> => Len(stack) <= (IF stack[1].len = 0 THEN 1 ELSE stack[1].len)

\* C20: read_next terminates whenever the source returns EAGAIN/EINTR only
\* finitely many times in a row: every successful partial read strictly
\* decreases the remaining length, so there are at most len successful read
\* syscalls (at most 1 when len = 0).
C20_ReadNextTerminates ==
    /\ []RemainingDecreases
    /\ (pc = "header") ~> (pc = "header_ret")
    /\ (pc = "payload") ~> (pc = "payload_ret")

\* a retry in the last activation that a read_next of more than one byte
\* can have
C20_Witness ==
    /\ pc \in {"header", "payload"}
    /\ stack[1].len > 1
    /\ Len(stack) = stack[1].len
    /\ outcome.errno \in Retryable

(***************************************************************************)
(* Properties of the Controller (specifications SpecController and         *)
(* SpecControllerFair).                                                    *)
(***************************************************************************)
\* C14: in every reachable state of the Controller, after any sequence of
\* register, deregister, run_once and run, the set of fds that have a
\* Handler in the fd table equals the kernel's interest set.
C14_TableAndInterestInSync ==
    DOMAIN table = interest

\* a deregister of one of two registered fds, and a deregister of an fd that
\* is not registered
C14_Witness ==
    /\ op.fn = "deregister"
    /\ op.fd \notin DOMAIN table
    /\ table # <<>>

\* C15: within one run_once, ready() is called once per reported event, in
\* the order the kernel reported them, on the Handler that owns the event's
\* fd; when run_once returns, every reported event has been dispatched.
C15_DispatchedOnceInOrder ==
    /\ Len(dispatched) <= Len(reported)
    /\ \A i \in 1..Len(dispatched) : dispatched[i].fd = reported[i]
    /\ cpc = "dispatch" =>
          \A i \in 1..Len(dispatched) : dispatched[i].h = table[reported[i]].h
    /\ cpc # "dispatch" => Len(dispatched) = Len(reported)

\* a run_once that has dispatched two events to two different Handlers
C15_Witness ==
    /\ cpc = "idle"
    /\ Len(dispatched) = 2
    /\ dispatched[1].h # dispatched[2].h
    /\ reported[1] > reported[2]

\* the Controller drops a terminated Handler in this step
DropsTerminated ==
    \E fd \in Terminated(table) : fd \notin DOMAIN table'

====
